---- MODULE Spec2Model ----
(***************************************************************************)
(* ChatServer (src/src/ws/main.py): one handler coroutine per websocket,    *)
(* all sharing the set self.clients.  A handler registers its websocket,    *)
(* then for every inbound message iterates over the LIVE set self.clients   *)
(* and awaits client.send(...) for each client whose open flag is true;     *)
(* the finally block removes the websocket from the set.                    *)
(*                                                                          *)
(* Handlers are asyncio tasks: a handler runs atomically between two        *)
(* awaits.  The awaits are the wait for the next inbound message and the    *)
(* wait for a send to complete.                                             *)
(*                                                                          *)
(* The set is a CPython hash set.  Its iterator keeps a table position and  *)
(* the number of entries the set had when the iterator was created; each    *)
(* step first compares that number with the set's current size and raises   *)
(* RuntimeError when they differ, and otherwise scans forward from the      *)
(* position.  A websocket hashes by identity, so its slot is fixed; the     *)
(* slot order is modelled by the order of the connection numbers (every     *)
(* connection can play every role, so every relative order is covered).     *)
(***************************************************************************)
EXTENDS Integers, Sequences, FiniteSets, TLC

\* Number of websockets the transport hands to the server (each connects once).
MaxConns == 3
\* Total number of inbound messages read by all handlers.
MaxMsgs == 2

Conns == 1..MaxConns

\* "You: " as character codes (main.py line 20).
YouPrefix == <<89, 111, 117, 58, 32>>

VARIABLES
    clients,    \* self.clients
    pc,         \* handler position: "accepted", "receiving", "sending", "done"
    link,       \* transport of each websocket: "open", "lost", "closed"
    it_pos,     \* set iterator of the handler's for loop: slot last yielded
    it_used,    \* set iterator: size of the set when the iterator was created
    cur,        \* message the handler is fanning out (<<>> before the first)
    sent,       \* number of messages read from each websocket
    inbox,      \* what each websocket's send() has written, in order
    exitBy,     \* how the handler left the try block
    nmsgs,      \* messages read so far by all handlers
    fanReg,     \* history: self.clients when the fan-out of cur began
    mut,        \* history: registry changes during the fan-out of cur, a subset
                \* of {"add", "disconnect", "abort"}
    passed,     \* history: registered clients the fan-out of cur found not open
    failedAt,   \* history: client whose send raised in the fan-out of cur (0: none)
    removals    \* history: number of times each websocket left self.clients

vars == <<clients, pc, link, it_pos, it_used, cur, sent, inbox, exitBy, nmsgs,
          fanReg, mut, passed, failedAt, removals>>

----------------------------------------------------------------------------
\* Helpers modelling single statements of the handler.

\* mutant: the registration overwrites the set instead of adding to it
RegisterOverwrites(S, w) == {w}

\* self.clients.add(websocket)
Register(S, w) == S \cup {w}

\* self.clients.remove(websocket): the set without w
Deregister(S, w) == S \ {w}

\* self.clients.remove(websocket) raises KeyError when w is absent
RemoveRaises(S, w) == w \notin S

\* client.open
OpenFlag(d) == link[d] # "closed"

\* mutant: the sender is sent the plain message, like everybody else
PayloadNoEcho(c, d, m) == m

\* the argument of client.send for recipient d of sender c's message m
Payload(c, d, m) == IF d = c THEN YouPrefix \o m ELSE m

\* mutant: the payload is put in front of what the peer was sent before
DeliverInFront(box, p) == <<p>> \o box

\* a completed client.send(p): p is appended to what the peer is sent
Deliver(box, p) == Append(box, p)

\* the clients the for loop has still to yield, from slot pos on
Rest(pos) == {d \in clients : d > pos}

Min(S) == CHOOSE x \in S : \A y \in S : x <= y

\* mutant: the loop breaks at the first client whose open flag is cleared
NextTargetBreaks(pos) ==
    IF Rest(pos) = {} \/ ~OpenFlag(Min(Rest(pos))) THEN 0 ELSE Min(Rest(pos))

\* the for loop runs on, without awaiting, to the next client with its open
\* flag set; 0 when the iterator is exhausted
NextTarget(pos) ==
    LET open == {d \in Rest(pos) : OpenFlag(d)}
    IN  IF open = {} THEN 0 ELSE Min(open)

\* mutant: the removal follows the try statement instead of being its finally
\* block, so an exception the except clause does not catch skips it
FinallyOnlyIfCaught(S, w, how) == IF how = "RuntimeError" THEN S ELSE Deregister(S, w)

\* the finally block: once the try block is left, by whatever exit
Finally(S, w, how) == Deregister(S, w)

----------------------------------------------------------------------------
Init ==
    /\ clients = {}
    /\ pc = [c \in Conns |-> "accepted"]
    /\ link = [c \in Conns |-> "open"]
    /\ it_pos = [c \in Conns |-> 0]
    /\ it_used = [c \in Conns |-> 0]
    /\ cur = [c \in Conns |-> <<>>]
    /\ sent = [c \in Conns |-> 0]
    /\ inbox = [c \in Conns |-> <<>>]
    /\ exitBy = [c \in Conns |-> "none"]
    /\ nmsgs = 0
    /\ fanReg = [c \in Conns |-> {}]
    /\ mut = [c \in Conns |-> {}]
    /\ passed = [c \in Conns |-> {}]
    /\ failedAt = [c \in Conns |-> 0]
    /\ removals = [c \in Conns |-> 0]

\* history: handler c changed the registry while other handlers were suspended
\* inside their for loop
Disturb(kind, c) ==
    [e \in Conns |-> IF pc[e] = "sending" /\ e # c THEN mut[e] \cup {kind} ELSE mut[e]]

\* the clients the for loop steps over between slot pos and its next target t
Skipped(pos, t) == {d \in Rest(pos) : ~OpenFlag(d) /\ (t = 0 \/ d < t)}

\* The handler leaves the try block by `how` and runs the finally block.
\* (kind, for the history only: "disconnect" when the handler's own stream
\* ended, "abort" when an exception of its fan-out ended it.)
Exit(c, how, kind) ==
    LET after == Finally(clients, c, how)
    IN  /\ clients' = after
        /\ pc' = [pc EXCEPT ![c] = "done"]
        /\ exitBy' = [exitBy EXCEPT ![c] = IF RemoveRaises(clients, c) THEN "KeyError" ELSE how]
        /\ removals' = [removals EXCEPT ![c] = @ + (IF c \in clients /\ c \notin after THEN 1 ELSE 0)]
        /\ mut' = IF after = clients THEN mut ELSE Disturb(kind, c)

\* main.py 12-16: the handler starts, registers the websocket and waits for the
\* first message.
Connect(c) ==
    /\ pc[c] = "accepted"
    /\ clients' = Register(clients, c)
    /\ pc' = [pc EXCEPT ![c] = "receiving"]
    /\ mut' = Disturb("add", c)
    /\ UNCHANGED <<link, it_pos, it_used, cur, sent, inbox, exitBy, nmsgs,
                   fanReg, passed, failedAt, removals>>

\* main.py 16-22: a message arrives; the for loop creates the set iterator and
\* runs to the first client whose open flag is set, whose send it awaits.
Receive(c) ==
    /\ pc[c] = "receiving"
    /\ link[c] = "open"
    /\ nmsgs < MaxMsgs
    /\ LET t == NextTarget(0)
       IN  /\ cur' = [cur EXCEPT ![c] = <<c, sent[c] + 1>>]
           /\ sent' = [sent EXCEPT ![c] = @ + 1]
           /\ nmsgs' = nmsgs + 1
           /\ it_used' = [it_used EXCEPT ![c] = Cardinality(clients)]
           /\ it_pos' = [it_pos EXCEPT ![c] = t]
           /\ pc' = [pc EXCEPT ![c] = IF t = 0 THEN "receiving" ELSE "sending"]
           /\ fanReg' = [fanReg EXCEPT ![c] = clients]
           /\ mut' = [mut EXCEPT ![c] = {}]
           /\ passed' = [passed EXCEPT ![c] = Skipped(0, t)]
           /\ failedAt' = [failedAt EXCEPT ![c] = 0]
    /\ UNCHANGED <<clients, link, inbox, exitBy, removals>>

\* main.py 20/22 raise ConnectionClosed: the awaited send fails because the
\* recipient's connection is no longer usable; line 23 catches it outside both
\* loops and the finally block runs.
SendFails(c) ==
    /\ pc[c] = "sending"
    /\ link[it_pos[c]] # "open"
    /\ failedAt' = [failedAt EXCEPT ![c] = it_pos[c]]
    /\ Exit(c, "ConnectionClosed", "abort")
    /\ UNCHANGED <<link, it_pos, it_used, cur, sent, inbox, nmsgs, fanReg, passed>>

\* main.py 17: the send completed, and the set iterator's next step finds that
\* the set changed size while the handler was suspended: RuntimeError, which
\* line 23 does not catch; the finally block runs and the handler ends.
IterRaises(c) ==
    /\ pc[c] = "sending"
    /\ link[it_pos[c]] = "open"
    /\ Cardinality(clients) # it_used[c]
    /\ inbox' = [inbox EXCEPT ![it_pos[c]] = Deliver(@, Payload(c, it_pos[c], cur[c]))]
    /\ Exit(c, "RuntimeError", "abort")
    /\ UNCHANGED <<link, it_pos, it_used, cur, sent, nmsgs, fanReg, passed, failedAt>>

\* main.py 17-22: the send completed and the for loop runs on to the next
\* client whose open flag is set, or ends, and the handler waits for the next
\* message.
SendDone(c) ==
    /\ pc[c] = "sending"
    /\ link[it_pos[c]] = "open"
    /\ Cardinality(clients) = it_used[c]
    /\ inbox' = [inbox EXCEPT ![it_pos[c]] = Deliver(@, Payload(c, it_pos[c], cur[c]))]
    /\ LET t == NextTarget(it_pos[c])
       IN  /\ it_pos' = [it_pos EXCEPT ![c] = t]
           /\ pc' = [pc EXCEPT ![c] = IF t = 0 THEN "receiving" ELSE "sending"]
           /\ passed' = [passed EXCEPT ![c] = @ \cup Skipped(it_pos[c], t)]
    /\ UNCHANGED <<clients, link, it_used, cur, sent, exitBy, nmsgs, fanReg, mut,
                   failedAt, removals>>

\* main.py 16, 23-27: the stream of the websocket has ended; the async for ends
\* (closing handshake) or raises ConnectionClosed (connection lost), and the
\* finally block runs.
StreamEnd(c) ==
    /\ pc[c] = "receiving"
    /\ link[c] # "open"
    /\ Exit(c, IF link[c] = "closed" THEN "EndOfStream" ELSE "ConnectionClosed", "disconnect")
    /\ UNCHANGED <<link, it_pos, it_used, cur, sent, inbox, nmsgs, fanReg, passed,
                   failedAt>>

\* The server reads the state of a connection only while its handler has not
\* ended or a send to it is awaited.
Observed(c) ==
    pc[c] # "done" \/ \E e \in Conns : pc[e] = "sending" /\ it_pos[e] = c

\* Environment: the peer's connection is lost; the open flag is still set.
LinkLost(c) ==
    /\ link[c] = "open"
    /\ Observed(c)
    /\ link' = [link EXCEPT ![c] = "lost"]
    /\ UNCHANGED <<clients, pc, it_pos, it_used, cur, sent, inbox, exitBy, nmsgs,
                   fanReg, mut, passed, failedAt, removals>>

\* Environment: the connection is closed; the open flag is cleared.
LinkClosed(c) ==
    /\ link[c] # "closed"
    /\ Observed(c)
    /\ link' = [link EXCEPT ![c] = "closed"]
    /\ UNCHANGED <<clients, pc, it_pos, it_used, cur, sent, inbox, exitBy, nmsgs,
                   fanReg, mut, passed, failedAt, removals>>

Next ==
    \E c \in Conns :
        \/ Connect(c)
        \/ Receive(c)
        \/ SendFails(c)
        \/ IterRaises(c)
        \/ SendDone(c)
        \/ StreamEnd(c)
        \/ LinkLost(c)
        \/ LinkClosed(c)

Spec == Init /\ [][Next]_vars

\* The event loop runs every task that can run, and an awaited send completes
\* or fails: each handler that can take a step eventually takes one.
HandlerStep(c) == SendFails(c) \/ IterRaises(c) \/ SendDone(c) \/ StreamEnd(c)

FairSpec == Spec /\ \A c \in Conns : WF_vars(HandlerStep(c))

----------------------------------------------------------------------------
\* The registry statements of the handler on their own (main.py 13 and 26),
\* called for any websocket in any order.

RegistryAdd(c) ==
    /\ clients' = Register(clients, c)
    /\ pc' = [pc EXCEPT ![c] = "receiving"]
    /\ UNCHANGED <<link, it_pos, it_used, cur, sent, inbox, exitBy, nmsgs,
                   fanReg, mut, passed, failedAt, removals>>

RegistryRemove(c) ==
    /\ clients' = IF RemoveRaises(clients, c) THEN clients ELSE Deregister(clients, c)
    /\ exitBy' = [exitBy EXCEPT ![c] = IF RemoveRaises(clients, c) THEN "KeyError" ELSE "none"]
    /\ pc' = [pc EXCEPT ![c] = "done"]
    /\ UNCHANGED <<link, it_pos, it_used, cur, sent, inbox, nmsgs,
                   fanReg, mut, passed, failedAt, removals>>

RegistryNext == \E c \in Conns : RegistryAdd(c) \/ RegistryRemove(c)

RegistrySpec == Init /\ [][RegistryNext]_vars

----------------------------------------------------------------------------
\* Vocabulary of the properties.

\* number of times payload p was sent to d
Copies(d, p) == Cardinality({i \in 1..Len(inbox[d]) : inbox[d][i] = p})

\* the fan-out of c's current message has ended
Finished(c) == cur[c] # <<>> /\ pc[c] # "sending"

\* the message inside a payload
Body(p) ==
    IF Len(p) > Len(YouPrefix) /\ SubSeq(p, 1, Len(YouPrefix)) = YouPrefix
    THEN SubSeq(p, Len(YouPrefix) + 1, Len(p))
    ELSE p

Registered == {c \in Conns : pc[c] \in {"receiving", "sending"}}

\* C1: at every moment self.clients is exactly the set of websockets whose
\* handler has registered them and has not yet run its finally block; a
\* websocket whose handler has ended is not in it, and none left it twice.
C1_RegistryIsLiveHandlers ==
    /\ clients = Registered
    /\ \A c \in Conns : pc[c] = "done" => c \notin clients /\ removals[c] = 1
    /\ \A c \in Conns : pc[c] # "done" => removals[c] = 0

C1_Witness ==
    \E c, d \in Conns :
        /\ pc[c] = "done" /\ c \notin clients
        /\ pc[d] = "sending" /\ d \in clients
        /\ sent[c] > 0

\* C2: a fan-out that ended while the registry did not change, every
\* registered client had its open flag set and no send failed has sent exactly
\* one payload to every registered client: the message itself to every client
\* but the sender, "You: " + message to the sender, and nothing to anyone else.
C2_FanOutDeliversOnce ==
    \A c \in Conns :
        (Finished(c) /\ mut[c] = {} /\ passed[c] = {} /\ failedAt[c] = 0) =>
            \A d \in Conns :
                /\ Copies(d, cur[c]) = (IF d \in fanReg[c] /\ d # c THEN 1 ELSE 0)
                /\ Copies(d, YouPrefix \o cur[c]) = (IF d = c THEN 1 ELSE 0)

C2_Witness ==
    \E c \in Conns :
        /\ Finished(c) /\ mut[c] = {} /\ passed[c] = {} /\ failedAt[c] = 0
        /\ Cardinality(fanReg[c]) >= 3
        /\ Copies(c, YouPrefix \o cur[c]) = 1
        /\ \A d \in fanReg[c] \ {c} : Copies(d, cur[c]) = 1

\* C3 (as claimed): a fan-out during which the only changes of the registry
\* were handlers of disconnecting websockets deregistering them ends without
\* RuntimeError and has sent the message to every
\* client that was registered when it began and is still registered and open.
C3_DeregistrationDuringFanOut ==
    \A c \in Conns :
        (Finished(c) /\ mut[c] = {"disconnect"} /\ failedAt[c] = 0) =>
            /\ exitBy[c] # "RuntimeError"
            /\ \A d \in fanReg[c] \cap clients :
                   link[d] = "open" => Copies(d, Payload(c, d, cur[c])) = 1

\* C4 (as claimed): when the send to B raised during a fan-out (the registry
\* being unchanged), every client enumerated after B that is open, in
\* particular every such client other than the sender, was still sent the
\* message.
C4_SendFailureDoesNotAbort ==
    \A c \in Conns :
        (Finished(c) /\ failedAt[c] # 0 /\ failedAt[c] # c /\ mut[c] = {}) =>
            \A d \in fanReg[c] :
                (d > failedAt[c] /\ d # c /\ link[d] = "open") =>
                    Copies(d, Payload(c, d, cur[c])) = 1

\* C5 (as claimed): a failed send to another client leaves the sender, whose
\* own connection is open, registered and its handler running.
C5_SenderSurvivesSendFailure ==
    \A c \in Conns :
        (failedAt[c] # 0 /\ failedAt[c] # c /\ link[c] = "open") =>
            c \in clients /\ pc[c] # "done"

\* C6: a handler that has ended, by the end of the stream, by
\* ConnectionClosed or by any other exception, has removed its websocket from
\* self.clients exactly once and the websocket is not in the set; and, the
\* handlers being scheduled fairly, a registered websocket whose connection
\* has ended is eventually not registered.
C6_DeregisteredOnEveryExit ==
    /\ [](\A c \in Conns :
            /\ removals[c] <= 1
            /\ pc[c] = "done" => (c \notin clients /\ removals[c] = 1))
    /\ \A c \in Conns : (c \in clients /\ link[c] # "open") ~> (c \notin clients)

C6_Witness ==
    \E c, d, e \in Conns :
        /\ exitBy[c] = "RuntimeError" /\ removals[c] = 1 /\ c \notin clients
        /\ exitBy[d] = "ConnectionClosed" /\ removals[d] = 1 /\ d \notin clients
        /\ exitBy[e] = "EndOfStream" /\ removals[e] = 1 /\ e \notin clients

\* C7 (as claimed): a fan-out during which other handlers only registered
\* their websockets ends without RuntimeError, and the sender, whose own
\* connection is open, stays registered.
C7_RegistrationDuringFanOut ==
    \A c \in Conns :
        (Finished(c) /\ mut[c] = {"add"} /\ failedAt[c] = 0) =>
            /\ exitBy[c] # "RuntimeError"
            /\ link[c] = "open" => c \in clients

\* C8: what a client is sent from one sender is in the order the sender's
\* messages were read, each at most once.
C8_PerSenderOrder ==
    \A d \in Conns :
        \A i, j \in 1..Len(inbox[d]) :
            (i < j /\ Body(inbox[d][i])[1] = Body(inbox[d][j])[1]) =>
                Body(inbox[d][i])[2] < Body(inbox[d][j])[2]

C8_Witness ==
    \E s, d \in Conns :
        /\ s # d
        /\ inbox[d] = << <<s, 1>>, <<s, 2>> >>
        /\ inbox[s] = << YouPrefix \o <<s, 1>>, YouPrefix \o <<s, 2>> >>

\* C9: a registered client B whose open flag is cleared when the for loop
\* reaches it is sent nothing of that message and is not removed from
\* self.clients by the fan-out (only its own handler's exit removes it); and
\* when nothing else disturbs the fan-out (registry unchanged, no send raised)
\* it ends normally with the message sent once to every other registered client.
C9_ClosedClientSkipped ==
    \A c \in Conns :
        cur[c] # <<>> =>
            /\ \A b \in passed[c] :
                   /\ Copies(b, cur[c]) = 0
                   /\ Copies(b, YouPrefix \o cur[c]) = 0
                   /\ b \in clients \/ pc[b] = "done"
            /\ (Finished(c) /\ passed[c] # {} /\ mut[c] = {} /\ failedAt[c] = 0) =>
                   /\ exitBy[c] \notin {"RuntimeError", "KeyError"}
                   /\ \A d \in fanReg[c] \ passed[c] :
                          Copies(d, IF d = c THEN YouPrefix \o cur[c] ELSE cur[c]) = 1

C9_Witness ==
    \E c, b, d \in Conns :
        /\ Finished(c) /\ mut[c] = {} /\ failedAt[c] = 0
        /\ b \in passed[c] /\ b \in clients /\ link[b] = "closed"
        /\ d \in fanReg[c] /\ d > b /\ d # c
        /\ Copies(d, cur[c]) = 1
        /\ Copies(b, cur[c]) = 0

====
